---- MODULE Spec2Model ----
(***************************************************************************)
(* Advance-Clipboard: the SQLite clip store (storage.py), the backup       *)
(* scheduler and snapshot writer (backup_manager.py) and their wiring in   *)
(* the application (main.py), as a state machine.                          *)
(*                                                                         *)
(* Time is counted in milliseconds.  datetime.now() is the wall clock: it  *)
(* is read, never advanced, by the program, so a reading is the variable   *)
(* now and the passing of time is the environment's action Tick.  Two      *)
(* calls with no Tick between them read the same value (the clock has a    *)
(* finite resolution).                                                     *)
(***************************************************************************)
EXTENDS Integers, Sequences, FiniteSets, TLC

VARIABLES
    clips,            \* the rows of table clips
    next_id,          \* AUTOINCREMENT: the id the next inserted row gets
    now,              \* the wall clock's current reading
    need_backup,      \* ClipboardStorage._need_backup
    backup_callback,  \* ClipboardStorage._backup_callback: "none" or "schedule"
    cb_calls,         \* invocations of the callback made by the latest call
    ret,              \* the latest call's return value
    timer,            \* BackupScheduler._timer: NoTimer or the armed timer's expiry
    app,              \* the application: "running", "cleanup" or "exited"
    bk_pc,            \* per thread, its position in _perform_backup
    bk_data,          \* per thread, the rows its get_all_clips() returned
    files,            \* the snapshot files of the backup directory
    hist,             \* the call just made, where a claim relates two calls
    last_add,         \* per content, what its latest add_clip returned and wrote
    calls,            \* the number of storage calls made so far
    s_timer,          \* BackupScheduler._timer: 0 (None) or a Timer
    timers,           \* the threading.Timer objects created, by number
    caller,           \* the calling thread's position in the scheduler
    slog,             \* what the scheduler's calls and backups have done
    doc,              \* the snapshot document at hand
    orig,             \* that document as its writer produced it
    src,              \* the clip collection the writer was given
    vres,             \* the latest validation: its result and its document
    writes,           \* the number of snapshot files written so far
    bdir,             \* the backup directory that startup finds
    rstat,            \* startup recovery: where it stands, the backup used
    txn,              \* the open transaction of the UI thread's connection
    inodes,           \* the files of the backup directory, with their bytes
    wr                \* each thread's position inside a snapshot write

storeVars == <<clips, next_id, need_backup, cb_calls, ret, timer>>
backupVars == <<app, bk_pc, bk_data, files>>
schedVars == <<s_timer, timers, caller, slog>>
codecVars == <<doc, orig, src, vres>>
dirVars == <<writes>>
recVars == <<bdir, rstat>>
txnVars == <<txn>>
writeVars == <<inodes, wr>>
auxVars == <<schedVars, codecVars, dirVars, recVars, txnVars, writeVars>>
vars == <<clips, next_id, now, need_backup, backup_callback, cb_calls, ret,
          timer, app, bk_pc, bk_data, files, hist, last_add, calls,
          s_timer, timers, caller, slog, doc, orig, src, vres, writes, bdir,
          rstat, txn, inodes, wr>>

(***************************************************************************)
(* Bounds of the model.                                                    *)
(***************************************************************************)
MaxId == 2
MaxPinId == 3
MaxTime == 1
MaxPinOrder == 4
MaxImport == 1
MaxCalls == 3
MaxDebounces == 2
MaxTimers == 3
MaxForces == 1
MaxDocClips == 2
MaxWrites == 11
MaxDirSeconds == 10
MaxBackupFiles == 2
MaxTxnId == 3
MaxInodes == 6
MaxFailCalls == 2
MaxLimit == 2

(***************************************************************************)
(* Program constants.                                                      *)
(***************************************************************************)
DebounceMs == 30000
MoveDeltaMs == 1
MAX_BACKUPS == 10
MsPerSecond == 1000

NoTimer == -1
Absent == "~absent~"

Types == {"text", "image"}
Tags == {"", "t"}
Groups == {"", "g"}
Ids == 1..MaxId
PinIds == 1..MaxPinId
Threads == {"timer", "main"}
\* (type, content) as on_clipboard_change passes them: text, or the file
\* name of a stored image
AddInputs == {<<"text", "a">>, <<"text", "b">>, <<"image", "c">>, <<"text", "d">>}
Directions == {-1, 1}

\* hashlib.md5(content).hexdigest(): a digest, not an encoding of the
\* content; "d" stands for a content whose digest collides with that of "a".
compute_hash(content) ==
    CASE content = "a" -> "h1"
      [] content = "b" -> "h2"
      [] content = "c" -> "h3"
      [] content = "d" -> "h1"
      [] OTHER -> "h0"

(***************************************************************************)
(* Queries.                                                                *)
(***************************************************************************)
RowsById(id) == {r \in clips : r.id = id}
RowsByHash(h) == {r \in clips : r.hash = h}
PinnedRows == {r \in clips : r.is_pinned}
HistoryRows == {r \in clips : ~r.is_pinned}

SetMax(S) == CHOOSE x \in S : \A y \in S : y <= x

\* SELECT COALESCE(MAX(pin_order), 0) FROM clips WHERE is_pinned = 1
MaxPinnedOrder ==
    IF PinnedRows = {} THEN 0 ELSE SetMax({r.pin_order : r \in PinnedRows})

\* All orderings of the rows S that ORDER BY key DESC allows (ties are in
\* any order), as sequences of ids.
Perms(S) ==
    {f \in [1..Cardinality(S) -> {r.id : r \in S}] :
        \A i, j \in 1..Cardinality(S) : i # j => f[i] # f[j]}

RowOf(id) == CHOOSE r \in clips : r.id = id

\* get_history() / get_pinned() with limit and offset covering every row
get_history ==
    {f \in Perms(HistoryRows) :
        \A i \in 1..(Len(f) - 1) :
            RowOf(f[i]).updated_at >= RowOf(f[i + 1]).updated_at}

get_pinned ==
    {f \in Perms(PinnedRows) :
        \A i \in 1..(Len(f) - 1) :
            RowOf(f[i]).pin_order >= RowOf(f[i + 1]).pin_order}

\* LIMIT ? OFFSET ? with the offset left out
PageIgnoresOffset(f, limit, offset) ==
    SubSeq(f, 1, IF limit < Len(f) THEN limit ELSE Len(f))

\* LIMIT ? OFFSET ? on the ordered rows f: offset rows are skipped, then at
\* most limit rows are returned
Page(f, limit, offset) ==
    SubSeq(f, offset + 1,
           IF offset + limit < Len(f) THEN offset + limit ELSE Len(f))

\* the pages of limit rows, one after the other, from offset on
RECURSIVE AllPages(_, _, _)
AllPages(f, limit, offset) ==
    IF offset >= Len(f) THEN <<>>
    ELSE Page(f, limit, offset) \o AllPages(f, limit, offset + limit)

(***************************************************************************)
(* _mark_dirty, and its absence.                                           *)
(***************************************************************************)
MarkDirty ==
    /\ need_backup' = TRUE
    /\ IF backup_callback = "schedule"
       THEN cb_calls' = 1 /\ timer' = now + DebounceMs
       ELSE cb_calls' = 0 /\ UNCHANGED timer

NoMarkDirty ==
    /\ cb_calls' = 0
    /\ UNCHANGED <<need_backup, timer>>

(***************************************************************************)
(* Write operations.                                                       *)
(***************************************************************************)
\* A row as INSERT makes it: group_name and pin_order take the column
\* defaults.  Column created_at is written here and read nowhere; the model
\* leaves it out of the rows.
NewRow(id, type, content, h, tag, pinned, updated) ==
    [id |-> id, type |-> type, content |-> content, hash |-> h, tag |-> tag,
     group_name |-> "", is_pinned |-> pinned, pin_order |-> 0,
     updated_at |-> updated]

add_clip(clip_type, content) ==
    LET content_hash == compute_hash(content) IN
    /\ IF RowsByHash(content_hash) # {}
       THEN \E existing \in RowsByHash(content_hash) :
              /\ clips' = (clips \ {existing})
                            \cup {[existing EXCEPT !.updated_at = now]}
              /\ ret' = <<existing.id, 0>>
              /\ UNCHANGED next_id
       ELSE /\ clips' = clips \cup
                 {NewRow(next_id, clip_type, content, content_hash, "", FALSE,
                         now)}
            /\ next_id' = next_id + 1
            /\ ret' = <<next_id, 1>>
    /\ MarkDirty

\* pin_clip with the "+ 1" of the new rank forgotten
pin_clip_same_rank(clip_id) ==
    /\ clips' = {IF r.id = clip_id
                 THEN [r EXCEPT !.is_pinned = TRUE,
                                !.pin_order = MaxPinnedOrder,
                                !.updated_at = now]
                 ELSE r : r \in clips}
    /\ ret' = <<1>>
    /\ UNCHANGED next_id
    /\ MarkDirty

pin_clip(clip_id) ==
    /\ clips' = {IF r.id = clip_id
                 THEN [r EXCEPT !.is_pinned = TRUE,
                                !.pin_order = MaxPinnedOrder + 1,
                                !.updated_at = now]
                 ELSE r : r \in clips}
    /\ ret' = <<1>>
    /\ UNCHANGED next_id
    /\ MarkDirty

unpin_clip(clip_id) ==
    /\ clips' = {IF r.id = clip_id
                 THEN [r EXCEPT !.is_pinned = FALSE, !.pin_order = 0,
                                !.updated_at = now]
                 ELSE r : r \in clips}
    /\ ret' = <<1>>
    /\ UNCHANGED next_id
    /\ MarkDirty

delete_clip(clip_id) ==
    /\ clips' = {r \in clips : r.id # clip_id}
    /\ ret' = <<1>>
    /\ UNCHANGED next_id
    /\ MarkDirty

\* update_tag that refreshes updated_at as add_clip does for a duplicate
update_tag_refreshes(clip_id, tag) ==
    /\ clips' = {IF r.id = clip_id
                 THEN [r EXCEPT !.tag = tag, !.updated_at = now] ELSE r :
                    r \in clips}
    /\ ret' = <<1>>
    /\ UNCHANGED next_id
    /\ MarkDirty

update_tag(clip_id, tag) ==
    /\ clips' = {IF r.id = clip_id THEN [r EXCEPT !.tag = tag] ELSE r :
                    r \in clips}
    /\ ret' = <<1>>
    /\ UNCHANGED next_id
    /\ MarkDirty

update_group(clip_id, group_name) ==
    /\ clips' = {IF r.id = clip_id THEN [r EXCEPT !.group_name = group_name]
                 ELSE r : r \in clips}
    /\ ret' = <<1>>
    /\ UNCHANGED next_id
    /\ MarkDirty

\* The row ids in clip_ids with positions i and j exchanged.
SwapAt(clip_ids, i, j) ==
    [k \in 1..Len(clip_ids) |->
        IF k = i THEN clip_ids[j] ELSE IF k = j THEN clip_ids[i]
        ELSE clip_ids[k]]

IndexOf(clip_ids, clip_id) == CHOOSE k \in 1..Len(clip_ids) : clip_ids[k] = clip_id

\* The pinned branch: a swap of pin_order with the row found at the target rank.
move_pinned(clip_id, direction) ==
    IF RowsById(clip_id) = {}
    THEN /\ ret' = <<0>>
         /\ UNCHANGED <<clips, next_id>>
         /\ NoMarkDirty
    ELSE LET current_order == RowOf(clip_id).pin_order
             new_order == current_order + direction
             targets == {r \in PinnedRows : r.pin_order = new_order}
         IN /\ IF targets = {}
               THEN UNCHANGED clips
               ELSE \E target \in targets :
                      clips' = {IF r.id = target.id
                                THEN [r EXCEPT !.pin_order = current_order]
                                ELSE IF r.id = clip_id
                                THEN [r EXCEPT !.pin_order = new_order]
                                ELSE r : r \in clips}
            /\ ret' = <<1>>
            /\ UNCHANGED next_id
            /\ MarkDirty

move_history_one_timestamp(clip_id, direction) ==
    \E clip_ids \in get_history :
      IF \A k \in 1..Len(clip_ids) : clip_ids[k] # clip_id
      THEN /\ ret' = <<0>>
           /\ UNCHANGED <<clips, next_id>>
           /\ NoMarkDirty
      ELSE LET idx == IndexOf(clip_ids, clip_id)
               new_idx == idx + direction
               moved == SwapAt(clip_ids, idx, new_idx)
           IN /\ IF 1 <= new_idx /\ new_idx <= Len(clip_ids)
                 THEN clips' = PinnedRows \cup
                        {[RowOf(moved[k]) EXCEPT !.updated_at = now] :
                         k \in 1..Len(moved)}
                 ELSE UNCHANGED clips
              /\ ret' = <<1>>
              /\ UNCHANGED next_id
              /\ MarkDirty

\* The history branch: the order is re-derived and every timestamp rewritten.
move_history(clip_id, direction) ==
    \E clip_ids \in get_history :
      IF \A k \in 1..Len(clip_ids) : clip_ids[k] # clip_id
      THEN /\ ret' = <<0>>
           /\ UNCHANGED <<clips, next_id>>
           /\ NoMarkDirty
      ELSE LET idx == IndexOf(clip_ids, clip_id)
               new_idx == idx + direction
               moved == SwapAt(clip_ids, idx, new_idx)
           IN /\ IF 1 <= new_idx /\ new_idx <= Len(clip_ids)
                 THEN clips' = PinnedRows \cup
                        {[RowOf(moved[k]) EXCEPT
                            !.updated_at = now - (k - 1) * MoveDeltaMs] :
                         k \in 1..Len(moved)}
                 ELSE UNCHANGED clips
              /\ ret' = <<1>>
              /\ UNCHANGED next_id
              /\ MarkDirty

move_clip(clip_id, direction, is_pinned) ==
    IF is_pinned THEN move_pinned(clip_id, direction)
    ELSE move_history(clip_id, direction)

clear_history ==
    /\ clips' = PinnedRows
    /\ ret' = <<Cardinality(HistoryRows)>>
    /\ UNCHANGED next_id
    /\ MarkDirty

clear_pinned ==
    /\ clips' = HistoryRows
    /\ ret' = <<Cardinality(PinnedRows)>>
    /\ UNCHANGED next_id
    /\ MarkDirty

(***************************************************************************)
(* import_clips.  A record is a dict; a key the dict lacks is Absent.      *)
(***************************************************************************)
Rec(content, type, tag, group_name, pinned, pin_order, h, created, updated) ==
    [content |-> content, type |-> type, tag |-> tag,
     group_name |-> group_name, is_pinned |-> pinned, pin_order |-> pin_order,
     hash |-> h, created_at |-> created, updated_at |-> updated]

\* an entry of a legacy flat file, normalised: no hash, no timestamps
RecLegacyA == Rec("a", "text", "t", "", FALSE, 0, Absent, -1, -1)
\* rows of a snapshot: every column of the table
RecPinnedB == Rec("b", "text", "", "g", TRUE, 2, "h2", 0, 0)
RecPinnedC == Rec("c", "image", "", "", TRUE, 1, "h3", 0, 1)
\* a record whose hash field is not the digest of its content
RecForgedA == Rec("a", "text", "", "", FALSE, 0, "h9", 0, 0)

ImportRecords == {RecLegacyA, RecPinnedB, RecPinnedC, RecForgedA}

RecLists ==
    UNION {[1..n -> ImportRecords] : n \in 0..MaxImport}

\* clip.get("hash") or self.compute_hash(content)
RecordHash(clip) ==
    IF clip.hash = Absent \/ clip.hash = "" THEN compute_hash(clip.content)
    ELSE clip.hash

\* INSERT with the hash UNIQUE constraint not applied
InsertUnchecked(rows, row) ==
    IF row.type \notin Types THEN rows ELSE rows \cup {row}

\* INSERT OR IGNORE: the row is skipped when a constraint of the table
\* (hash UNIQUE, the CHECK on type) rejects it.
InsertOrIgnore(rows, row) ==
    IF row.type \notin Types \/ (\E r \in rows : r.hash = row.hash)
    THEN rows
    ELSE rows \cup {row}

\* One iteration of the loop over the records.  st = [rows, nid, count].
ImportOne(st, clip) ==
    LET created_at == IF clip.created_at = -1 THEN now ELSE clip.created_at
        updated_at == IF clip.updated_at = -1 THEN created_at
                      ELSE clip.updated_at
        row == NewRow(st.nid, clip.type, clip.content, RecordHash(clip),
                      clip.tag, clip.is_pinned, updated_at)
        rows == InsertOrIgnore(st.rows, row)
    IN [rows |-> rows,
        nid |-> IF rows = st.rows THEN st.nid ELSE st.nid + 1,
        count |-> st.count + 1]

RECURSIVE ImportLoop(_, _, _)
ImportLoop(st, recs, k) ==
    IF k > Len(recs) THEN st
    ELSE ImportLoop(ImportOne(st, recs[k]), recs, k + 1)

import_clips(recs) ==
    LET done == ImportLoop([rows |-> clips, nid |-> next_id, count |-> 0],
                           recs, 1)
    IN /\ clips' = done.rows
       /\ next_id' = done.nid
       /\ ret' = <<done.count>>
       /\ NoMarkDirty

set_backup_callback ==
    /\ backup_callback = "none"
    /\ backup_callback' = "schedule"
    /\ UNCHANGED <<storeVars, backupVars, now, hist, last_add, calls>>
    /\ UNCHANGED auxVars

\* Time passes.
Tick(d) ==
    /\ now' = now + d
    /\ UNCHANGED <<storeVars, backupVars, backup_callback, hist, last_add,
                   calls>>
    /\ UNCHANGED auxVars

(***************************************************************************)
(* The backup: BackupScheduler, ClientApp._perform_backup, create_backup.  *)
(***************************************************************************)
\* get_backup_files()[0]: the file whose name sorts last
Newest == CHOOSE f \in files : \A g \in files : g.name <= f.name

\* rotate_backups: the MAX_BACKUPS files whose names sort last are kept
rotate_backups(fs) ==
    {f \in fs : Cardinality({g \in fs : g.name > f.name}) < MAX_BACKUPS}

\* create_backup: the file is named by the second it is written in and
\* os.replace puts it in place of any file of that name.
create_backup(data) ==
    LET name == now \div MsPerSecond IN
    rotate_backups({f \in files : f.name # name}
                     \cup {[name |-> name, data |-> data]})

\* The armed timer expires: _execute_backup starts on the timer's thread.
TimerFire ==
    /\ app # "exited"
    /\ timer # NoTimer
    /\ now >= timer
    /\ bk_pc["timer"] = "idle"
    /\ timer' = NoTimer
    /\ bk_pc' = [bk_pc EXCEPT !["timer"] = "start"]
    /\ UNCHANGED <<clips, next_id, need_backup, cb_calls, ret, now,
                   backup_callback, app, bk_data, files, hist, last_add, calls>>
    /\ UNCHANGED auxVars

\* clips = self.storage.get_all_clips()
BackupRead(th) ==
    /\ app # "exited"
    /\ bk_pc[th] = "start"
    /\ bk_data' = [bk_data EXCEPT ![th] = clips]
    /\ bk_pc' = [bk_pc EXCEPT ![th] = "read"]
    /\ UNCHANGED <<storeVars, now, backup_callback, app, files, hist,
                   last_add, calls>>
    /\ UNCHANGED auxVars

\* create_backup(clips)
BackupWrite(th) ==
    /\ app # "exited"
    /\ bk_pc[th] = "read"
    /\ files' = create_backup(bk_data[th])
    /\ bk_pc' = [bk_pc EXCEPT ![th] = "written"]
    /\ UNCHANGED <<storeVars, now, backup_callback, app, bk_data, hist,
                   last_add, calls>>
    /\ UNCHANGED auxVars

\* _perform_backup without its clear_backup_flag()
BackupClearForgotten(th) ==
    /\ app # "exited"
    /\ bk_pc[th] = "written"
    /\ bk_pc' = [bk_pc EXCEPT ![th] = "idle"]
    /\ app' = IF th = "main" THEN "exited" ELSE app
    /\ UNCHANGED <<clips, next_id, need_backup, cb_calls, ret, timer, now,
                   backup_callback, bk_data, files, hist, last_add, calls>>
    /\ UNCHANGED auxVars

\* self.storage.clear_backup_flag(); on the main thread the cleanup is over
BackupClear(th) ==
    /\ app # "exited"
    /\ bk_pc[th] = "written"
    /\ need_backup' = FALSE
    /\ bk_pc' = [bk_pc EXCEPT ![th] = "idle"]
    /\ app' = IF th = "main" THEN "exited" ELSE app
    /\ UNCHANGED <<clips, next_id, cb_calls, ret, timer, now, backup_callback,
                   bk_data, files, hist, last_add, calls>>
    /\ UNCHANGED auxVars

\* _cleanup_on_exit: force_now() when the store is dirty
cleanup_on_exit ==
    /\ app = "running"
    /\ IF need_backup
       THEN /\ timer' = NoTimer
            /\ bk_pc' = [bk_pc EXCEPT !["main"] = "start"]
            /\ app' = "cleanup"
       ELSE /\ app' = "exited"
            /\ UNCHANGED <<timer, bk_pc>>
    /\ UNCHANGED <<clips, next_id, need_backup, cb_calls, ret, now,
                   backup_callback, bk_data, files, hist, last_add, calls>>
    /\ UNCHANGED auxVars

(***************************************************************************)
(* BackupScheduler, thread by thread.  A threading.Timer is a thread that  *)
(* waits on its event `finished` for the interval and calls its function   *)
(* when the wait timed out and the event is not set; cancel() sets the     *)
(* event, which stops a timer that still waits and no other.  Each         *)
(* `with self._lock` block is one step.                                    *)
(***************************************************************************)
TimerIds == 1..MaxTimers

NoTimerObj == [pc |-> "none", finished |-> FALSE, expiry |-> 0]

otherVars == <<storeVars, backupVars, backup_callback, hist, last_add, calls,
               codecVars, dirVars, recVars, txnVars, writeVars>>

\* a timer that was started, is not cancelled and has not fired
Armed(k) == timers[k].pc = "waiting" /\ ~timers[k].finished

Created == {k \in TimerIds : timers[k].pc # "none"}

\* self._timer.cancel() when self._timer is not None
CancelCurrent(tm) ==
    IF s_timer = 0 THEN tm
    ELSE [tm EXCEPT ![s_timer].finished = TRUE]

\* schedule(): its body is one block under the lock.  A call that comes
\* the debounce interval or more after the one before starts a new burst.
schedule ==
    /\ caller = "idle"
    /\ Cardinality(Created) < MaxTimers
    /\ LET k == Cardinality(Created) + 1 IN
         /\ timers' = [CancelCurrent(timers) EXCEPT
                         ![k] = [pc |-> "waiting", finished |-> FALSE,
                                 expiry |-> now + DebounceMs]]
         /\ s_timer' = k
         /\ slog' = [slog EXCEPT
                       !.n_calls = @ + 1,
                       !.burst = IF slog.n_calls = 0
                                    \/ now - slog.last_sched >= DebounceMs
                                 THEN k ELSE @,
                       !.last_sched = now,
                       !.since_force = FALSE]
    /\ UNCHANGED <<caller, now, otherVars>>

\* Timer.run: finished.wait(interval) timed out and finished is not set:
\* self.function is called, which is _execute_backup
TimerWake(k) ==
    /\ Armed(k)
    /\ now >= timers[k].expiry
    /\ timers' = [timers EXCEPT ![k].pc = "called"]
    /\ UNCHANGED <<s_timer, caller, slog, now, otherVars>>

\* Timer.run: finished was set during the wait; the thread ends
TimerCancelled(k) ==
    /\ timers[k].pc = "waiting"
    /\ timers[k].finished
    /\ timers' = [timers EXCEPT ![k].pc = "dead"]
    /\ UNCHANGED <<s_timer, caller, slog, now, otherVars>>

\* _execute_backup: with self._lock: self._timer = None
ExecuteLock(k) ==
    /\ timers[k].pc = "called"
    /\ s_timer' = 0
    /\ timers' = [timers EXCEPT ![k].pc = "backup"]
    /\ UNCHANGED <<caller, slog, now, otherVars>>

\* _execute_backup: self._backup_func() on the timer's thread
ExecuteBackup(k) ==
    /\ timers[k].pc = "backup"
    /\ timers' = [timers EXCEPT ![k].pc = "done"]
    /\ UNCHANGED <<s_timer, caller, slog, now, otherVars>>

\* force_now(): the block under the lock
ForceLock ==
    /\ caller = "idle"
    /\ slog.forced < MaxForces
    /\ timers' = CancelCurrent(timers)
    /\ s_timer' = 0
    /\ caller' = "force"
    /\ UNCHANGED <<slog, now, otherVars>>

\* force_now(): self._backup_func() on the calling thread; the call returns
ForceBackup ==
    /\ caller = "force"
    /\ caller' = "idle"
    /\ slog' = [slog EXCEPT !.forced = @ + 1, !.since_force = TRUE]
    /\ UNCHANGED <<s_timer, timers, now, otherVars>>

\* cancel()
cancel ==
    /\ caller = "idle"
    /\ timers' = CancelCurrent(timers)
    /\ s_timer' = 0
    /\ slog' = [slog EXCEPT !.cancels = 1]
    /\ UNCHANGED <<caller, now, otherVars>>

InitSched ==
    /\ s_timer = 0
    /\ timers = [k \in TimerIds |-> NoTimerObj]
    /\ caller = "idle"
    /\ slog = [n_calls |-> 0, burst |-> 0, last_sched |-> 0,
               forced |-> 0, cancels |-> 0,
               since_force |-> FALSE]

(***************************************************************************)
(* The snapshot codec.  A file's content is what reading and parsing it    *)
(* gives: a JSON document, text that is no JSON, or bytes that are no      *)
(* UTF-8.  A document is a dict, here a record; a digest is written as the *)
(* text it was taken of, under the digest's name.                          *)
(***************************************************************************)
NoDoc == [kind |-> "none"]
NoResult == [ok |-> FALSE, raised |-> FALSE, clips |-> <<>>]

\* rows as get_all_clips() returns them
DocClips ==
    {NewRow(1, "text", "a", "h1", "", FALSE, 0),
     [NewRow(2, "text", "b", "h2", "t", TRUE, 0)
        EXCEPT !.pin_order = 1, !.group_name = "g"]}

Collections == UNION {[1..n -> DocClips] : n \in 0..MaxDocClips}

\* json.dumps(obj, ensure_ascii=False, sort_keys=True)
json_dumps(obj) == <<"json", obj>>

\* hashlib.sha256(data.encode("utf-8")).hexdigest()
compute_checksum(data) == <<"sha256", data>>

\* json.dump(backup_data, f): the file's content
JsonFile(data) == [kind |-> "json", value |-> data]

backup_data_digest_of_document(clip_list) ==
    [version |-> 1,
     created_at |-> now,
     clips |-> clip_list,
     checksum |-> compute_checksum(json_dumps(
                      <<[version |-> 1, created_at |-> now,
                         clips |-> clip_list,
                         clip_count |-> Len(clip_list)]>>)),
     clip_count |-> Len(clip_list)]

\* create_backup: the document it writes
backup_data(clip_list) ==
    [version |-> 1,
     created_at |-> now,
     clips |-> clip_list,
     checksum |-> compute_checksum(json_dumps(clip_list)),
     clip_count |-> Len(clip_list)]

IsPinnedClip(c) == c.is_pinned
IsHistoryClip(c) == ~c.is_pinned

\* backup.py, BackupManager._do_backup: the document it writes
backup_data_v2(clip_list) ==
    LET data_for_hash ==
          [version |-> 2,
           created_at |-> now,
           history |-> SelectSeq(clip_list, IsHistoryClip),
           pinned |-> SelectSeq(clip_list, IsPinnedClip)]
    IN [version |-> 2,
        created_at |-> now,
        history |-> data_for_hash.history,
        pinned |-> data_for_hash.pinned,
        checksum |-> compute_checksum(json_dumps(data_for_hash))]

\* {k: v for k, v in data.items() if k != "checksum"}
WithoutChecksum(data) == [k \in DOMAIN data \ {"checksum"} |-> data[k]]

\* backup_manager.validate_backup(filepath) on a file of this content.
\* open(..., encoding="utf-8") raises UnicodeDecodeError on bytes that are
\* no UTF-8, which the except clause does not name.
validate_backup(content) ==
    IF content.kind = "not_utf8"
    THEN [ok |-> FALSE, raised |-> TRUE, clips |-> <<>>]
    ELSE IF content.kind # "json" THEN NoResult
    ELSE LET data == content.value IN
         IF "clips" \notin DOMAIN data \/ "checksum" \notin DOMAIN data
         THEN NoResult
         ELSE IF data.checksum # compute_checksum(json_dumps(data.clips))
         THEN NoResult
         ELSE [ok |-> TRUE, raised |-> FALSE, clips |-> data.clips]

\* backup.py, BackupManager.validate_backup followed by the list that
\* restore_from_backup builds of the data: pinned, then history
validate_backup_v2(content) ==
    IF content.kind # "json" THEN NoResult
    ELSE LET data == content.value IN
         IF "history" \notin DOMAIN data /\ "pinned" \notin DOMAIN data
         THEN NoResult
         ELSE IF "checksum" \in DOMAIN data
                 /\ data.checksum
                      # compute_checksum(json_dumps(WithoutChecksum(data)))
         THEN NoResult
         ELSE [ok |-> TRUE, raised |-> FALSE,
               clips |-> (IF "pinned" \in DOMAIN data THEN data.pinned
                          ELSE <<>>)
                         \o (IF "history" \in DOMAIN data THEN data.history
                             ELSE <<>>)]

codecFrame == <<storeVars, backupVars, backup_callback, hist, last_add, calls,
                schedVars, dirVars, recVars, txnVars, writeVars, now>>

\* create_backup(clips) writes its document
CodecWrite(clip_list) ==
    /\ src' = clip_list
    /\ doc' = JsonFile(backup_data(clip_list))
    /\ orig' = doc'
    /\ vres' = [of |-> NoDoc, v1 |-> NoResult, v2 |-> NoResult]
    /\ UNCHANGED codecFrame

\* BackupManager._do_backup writes its document
CodecWriteV2(clip_list) ==
    /\ src' = clip_list
    /\ doc' = JsonFile(backup_data_v2(clip_list))
    /\ orig' = doc'
    /\ vres' = [of |-> NoDoc, v1 |-> NoResult, v2 |-> NoResult]
    /\ UNCHANGED codecFrame

\* the values a field of a document may be changed to
FieldValues(field) ==
    CASE field = "version" -> {1, 2}
      [] field = "created_at" -> {now, now + 1}
      [] field = "clip_count" -> 0..MaxDocClips
      [] OTHER -> Collections

\* The file is changed on disk: one field other than the checksum gets
\* another value.
Tamper(field, value) ==
    /\ doc.kind = "json"
    /\ doc = orig
    /\ field \in DOMAIN doc.value \ {"checksum"}
    /\ value # doc.value[field]
    /\ doc' = [doc EXCEPT !.value[field] = value]
    /\ UNCHANGED <<orig, src, vres, codecFrame>>

\* The file on disk is a document without one of the fields.
Strip(field) ==
    /\ doc.kind = "json"
    /\ doc = orig
    /\ field \in DOMAIN doc.value
    /\ doc' = [doc EXCEPT !.value =
                 [k \in DOMAIN doc.value \ {field} |-> doc.value[k]]]
    /\ UNCHANGED <<orig, src, vres, codecFrame>>

\* The file is damaged: its bytes are no JSON text, or no UTF-8.
Damage(kind) ==
    /\ doc.kind = "json"
    /\ doc' = [kind |-> kind]
    /\ UNCHANGED <<orig, src, vres, codecFrame>>

\* both validators read the file
CodecValidate ==
    /\ doc.kind # "none"
    /\ vres' = [of |-> doc, v1 |-> validate_backup(doc),
                v2 |-> validate_backup_v2(doc)]
    /\ UNCHANGED <<doc, orig, src, codecFrame>>

InitCodec ==
    /\ doc = NoDoc
    /\ orig = NoDoc
    /\ src = <<>>
    /\ vres = [of |-> NoDoc, v1 |-> NoResult, v2 |-> NoResult]

(***************************************************************************)
(* The backup directory over many backups.                                 *)
(***************************************************************************)
dirFrame == <<clips, next_id, need_backup, cb_calls, ret, timer, app, bk_pc,
              bk_data, backup_callback, hist, last_add, calls, schedVars,
              codecVars, recVars, txnVars, writeVars>>

\* what the store may hold when a backup runs
DirContents ==
    {<<>>, <<NewRow(1, "text", "a", "h1", "", FALSE, 0)>>}

\* _perform_backup, from the timer or from force_now(): create_backup
\* writes the store's clips and succeeds
PerformBackup(clip_list) ==
    /\ writes < MaxWrites
    /\ files' = create_backup(clip_list)
    /\ writes' = writes + 1
    /\ UNCHANGED <<now, dirFrame>>

InitDir == writes = 0

(***************************************************************************)
(* Recovery at startup.  bdir is what is on disk when the program starts:  *)
(* the backup files, by the second in their name, and the legacy file.     *)
(***************************************************************************)
NoLegacy == [exists |-> FALSE, pinned |-> <<>>, history |-> <<>>]

recFrame == <<now, backupVars, backup_callback, hist, last_add, calls,
              schedVars, codecVars, dirVars, txnVars, writeVars, bdir>>

\* get_backup_files()[0]: the name that sorts last
NewestOf(backups) ==
    CHOOSE f \in backups : \A g \in backups : g.name <= f.name

\* find_valid_backup over the files not yet tried
RECURSIVE find_valid_backup(_)
find_valid_backup(backups) ==
    IF backups = {}
    THEN [found |-> FALSE, raised |-> FALSE, path |-> 0, clips |-> <<>>]
    ELSE LET filepath == NewestOf(backups)
             res == validate_backup(filepath.content)
         IN IF res.raised
            THEN [found |-> FALSE, raised |-> TRUE, path |-> filepath.name,
                  clips |-> <<>>]
            ELSE IF res.ok
            THEN [found |-> TRUE, raised |-> FALSE, path |-> filepath.name,
                  clips |-> res.clips]
            ELSE find_valid_backup(backups \ {filepath})

\* a row of a snapshot as import_clips reads it; the rows of the model
\* keep no created_at, which import_clips reads only for a record without
\* updated_at
RowAsRec(row) ==
    Rec(row.content, row.type, row.tag, row.group_name, row.is_pinned,
        row.pin_order, row.hash, row.updated_at, row.updated_at)

\* import_legacy_json on a file whose items are strings
import_legacy_json(data) ==
    [i \in 1..Len(data.pinned) |->
        Rec(data.pinned[i], "text", "", "", TRUE,
            Len(data.pinned) - (i - 1), Absent, now, now)]
    \o [i \in 1..Len(data.history) |->
          Rec(data.history[i], "text", "", "", FALSE, 0, Absent, now, now)]

\* ClientApp._init_data
init_data ==
    /\ rstat.pc = "start"
    /\ IF clips # {}
       THEN /\ rstat' = [pc |-> "kept", path |-> 0]
            /\ UNCHANGED storeVars
       ELSE LET found == find_valid_backup(bdir.backups) IN
            IF found.raised
            THEN /\ rstat' = [pc |-> "raised", path |-> found.path]
                 /\ UNCHANGED storeVars
            ELSE IF found.clips # <<>>
            THEN /\ import_clips([i \in DOMAIN found.clips |->
                                    RowAsRec(found.clips[i])])
                 /\ rstat' = [pc |-> "backup", path |-> found.path]
            ELSE IF bdir.legacy.exists
                    /\ import_legacy_json(bdir.legacy) # <<>>
            THEN /\ import_clips(import_legacy_json(bdir.legacy))
                 /\ rstat' = [pc |-> "legacy", path |-> 0]
            ELSE /\ rstat' = [pc |-> "fresh", path |-> 0]
                 /\ UNCHANGED storeVars
    /\ UNCHANGED recFrame

InitRec ==
    /\ bdir = [backups |-> {}, legacy |-> NoLegacy]
    /\ rstat = [pc |-> "start", path |-> 0]

(***************************************************************************)
(* Transactions.  A call that writes more than one row does so statement   *)
(* by statement inside `with _transaction()`.  clips is what is committed, *)
(* which is what every other connection reads; txn holds what the UI       *)
(* thread's connection sees until it commits or rolls back.  A statement   *)
(* fails with an error of the database (I/O error, disk full).  txn.done   *)
(* counts the statements the transaction has executed.                     *)
(***************************************************************************)
\* what the caller gets when the call raises instead of returning
Raised == <<-1>>

NoTxn ==
    [op |-> "none", saved |-> {}, st |-> [rows |-> {}, nid |-> 0, count |-> 0],
     todo |-> <<>>, done |-> 0]

txnFrame == <<now, backup_callback, backupVars, hist, last_add, calls,
              schedVars, codecVars, dirVars, recVars, writeVars>>

\* conn.execute of one statement on the connection's view
ApplyWrite(st, w) ==
    CASE w.kind = "insert" -> ImportOne(st, w.clip)
      [] w.kind = "pin_order" ->
           [st EXCEPT !.rows = {IF r.id = w.id
                                THEN [r EXCEPT !.pin_order = w.value]
                                ELSE r : r \in st.rows}]
      [] OTHER ->
           [st EXCEPT !.rows = {IF r.id = w.id
                                THEN [r EXCEPT !.updated_at = w.value]
                                ELSE r : r \in st.rows}]

Begin(op, todo) ==
    /\ txn.op = "none"
    /\ txn' = [op |-> op, saved |-> clips,
               st |-> [rows |-> clips, nid |-> next_id, count |-> 0],
               todo |-> todo, done |-> 0]
    /\ UNCHANGED <<storeVars, txnFrame>>

\* move_clip(clip_id, direction, True) up to its first UPDATE: the target
\* is found, three UPDATE statements are to come
TxMovePinned(clip_id, direction) ==
    /\ RowsById(clip_id) # {}
    /\ \E target \in {r \in PinnedRows :
                       r.pin_order = RowOf(clip_id).pin_order + direction} :
         Begin("move",
               <<[kind |-> "pin_order", id |-> clip_id,
                  value |-> RowOf(clip_id).pin_order + direction],
                 [kind |-> "pin_order", id |-> target.id,
                  value |-> RowOf(clip_id).pin_order],
                 [kind |-> "pin_order", id |-> target.id,
                  value |-> RowOf(clip_id).pin_order]>>)

\* move_clip(clip_id, direction, False) up to its first UPDATE: one UPDATE
\* a history clip is to come
TxMoveHistory(clip_id, direction) ==
    \E clip_ids \in get_history :
      /\ \E k \in 1..Len(clip_ids) : clip_ids[k] = clip_id
      /\ LET idx == IndexOf(clip_ids, clip_id)
             new_idx == idx + direction
             moved == SwapAt(clip_ids, idx, new_idx)
         IN /\ 1 <= new_idx /\ new_idx <= Len(clip_ids)
            /\ Begin("move",
                     [k \in 1..Len(moved) |->
                        [kind |-> "updated_at", id |-> moved[k],
                         value |-> now - (k - 1) * MoveDeltaMs]])

\* import_clips(recs) up to its first INSERT
TxImport(recs) ==
    /\ recs # <<>>
    /\ Begin("import", [k \in 1..Len(recs) |-> [kind |-> "insert", clip |-> recs[k]]])

\* the next statement succeeds
TxWrite ==
    /\ txn.op # "none"
    /\ txn.todo # <<>>
    /\ txn' = [txn EXCEPT !.st = ApplyWrite(txn.st, Head(txn.todo)),
                          !.todo = Tail(txn.todo),
                          !.done = @ + 1]
    /\ UNCHANGED <<storeVars, txnFrame>>

rollback_keeps_writes(t) == t.st.rows

\* _transaction: except Exception: conn.rollback(); raise
rollback(t) == t.saved

\* the next statement, or the commit, fails: the exception leaves the
\* `with` block through _transaction and reaches the caller
TxFail ==
    /\ txn.op # "none"
    /\ clips' = rollback(txn)
    /\ ret' = Raised
    /\ txn' = [NoTxn EXCEPT !.done = txn.done]
    /\ NoMarkDirty
    /\ UNCHANGED <<next_id, txnFrame>>

\* every statement is done: _mark_dirty() for a move, then conn.commit()
TxCommit ==
    /\ txn.op # "none"
    /\ txn.todo = <<>>
    /\ clips' = txn.st.rows
    /\ next_id' = txn.st.nid
    /\ IF txn.op = "move"
       THEN ret' = <<1>> /\ MarkDirty
       ELSE ret' = <<txn.st.count>> /\ NoMarkDirty
    /\ txn' = NoTxn
    /\ UNCHANGED txnFrame

(***************************************************************************)
(* The snapshot write, system call by system call.  The backup directory   *)
(* is a set of files: ino is the file itself, name the second its name     *)
(* carries, tmp whether the name ends in ".tmp", content what was written  *)
(* to it so far.  json.dump writes the document in DocParts writes; a      *)
(* write goes to the file the descriptor was opened on, at the             *)
(* descriptor's offset, whatever name that file has by then.               *)
(***************************************************************************)
DocParts == 2
Writers == {"backup_manager", "backup"}
Hole == [doc |-> NoDoc, part |-> 0]
WIdle == [pc |-> "idle", writer |-> "none", name |-> 0, data |-> NoDoc,
          fd |-> 0, part |-> 0, before |-> {}, solo |-> TRUE, ok |-> FALSE,
          raised |-> FALSE]

writeFrame == <<clips, next_id, cb_calls, ret, timer, now, backup_callback,
                bk_data, files, hist, last_add, calls, schedVars, codecVars,
                dirVars, recVars, txnVars>>

\* glob of BACKUP_PREFIX*.json: the files under a final name
get_backup_files == {f \in inodes : ~f.tmp}

\* the file at temp_filepath, if there is one
TempAt(name) == {f \in inodes : f.tmp /\ f.name = name}

\* ORDER BY is_pinned DESC, updated_at DESC: the lists get_all_clips() can
\* return of these rows
get_all_clips(rows) ==
    {[i \in 1..Cardinality(rows) |-> CHOOSE r \in rows : r.id = f[i]] :
       f \in {g \in Perms(rows) :
                \A i, j \in 1..Cardinality(rows) :
                   i < j =>
                     LET a == CHOOSE r \in rows : r.id = g[i]
                         b == CHOOSE r \in rows : r.id = g[j]
                     IN \/ a.is_pinned /\ ~b.is_pinned
                        \/ a.is_pinned = b.is_pinned
                           /\ a.updated_at >= b.updated_at}}

\* a file number no file of the directory and no open descriptor has
FreshIno ==
    CHOOSE i \in 1..MaxInodes :
       /\ \A f \in inodes : f.ino # i
       /\ \A th \in Threads : wr[th].fd # i

\* f.write of one part at the descriptor's offset
WriteAt(content, p, chunk) ==
    [i \in 1..(IF Len(content) > p THEN Len(content) ELSE p) |->
       IF i = p THEN chunk
       ELSE IF i <= Len(content) THEN content[i] ELSE Hole]

\* what json.load gives of a file of this content
ReadFile(content) ==
    IF /\ Len(content) = DocParts
       /\ \A i \in 1..DocParts : content[i].part = i
       /\ \A i \in 1..DocParts : content[i].doc = content[1].doc
    THEN JsonFile(content[1].doc)
    ELSE [kind |-> "text"]

\* rotate_backups() / _rotate_backups() on the directory
rotate_files(fs) ==
    {f \in fs : f.tmp \/ f \in rotate_backups({g \in fs : ~g.tmp})}

\* create_backup(clips) or BackupManager._do_backup up to the open(): the
\* file name of this second and the document
WBegin(th, writer) ==
    /\ app # "exited"
    /\ bk_pc[th] = "read"
    /\ wr[th].pc = "idle"
    /\ writer = "backup" => need_backup
    /\ \E clip_list \in get_all_clips(bk_data[th]) :
         wr' = [o \in Threads |->
                  IF o = th
                  THEN [WIdle EXCEPT
                          !.pc = "open",
                          !.writer = writer,
                          !.name = now \div MsPerSecond,
                          !.data = IF writer = "backup_manager"
                                   THEN backup_data(clip_list)
                                   ELSE backup_data_v2(clip_list),
                          !.before = get_backup_files,
                          !.solo = \A o2 \in Threads \ {th} :
                                      wr[o2].pc = "idle"]
                  ELSE IF wr[o].pc # "idle"
                       THEN [wr[o] EXCEPT !.solo = FALSE]
                       ELSE wr[o]]
    /\ UNCHANGED <<inodes, bk_pc, need_backup, app, writeFrame>>

\* open(temp_filepath, "w"): the file of that name is truncated, or a new
\* file is made
WOpen(th) ==
    /\ app # "exited"
    /\ wr[th].pc = "open"
    /\ IF TempAt(wr[th].name) # {}
       THEN LET t == CHOOSE f \in TempAt(wr[th].name) : TRUE IN
            /\ inodes' = (inodes \ {t}) \cup {[t EXCEPT !.content = <<>>]}
            /\ wr' = [wr EXCEPT ![th].pc = "write", ![th].fd = t.ino]
       ELSE /\ \E i \in 1..MaxInodes :
                 /\ \A f \in inodes : f.ino # i
                 /\ \A o \in Threads : wr[o].fd # i
            /\ inodes' = inodes \cup {[ino |-> FreshIno, name |-> wr[th].name,
                                       tmp |-> TRUE, content |-> <<>>]}
            /\ wr' = [wr EXCEPT ![th].pc = "write", ![th].fd = FreshIno]
    /\ UNCHANGED <<bk_pc, need_backup, app, writeFrame>>

\* json.dump(backup_data, f): one more part is written
WWritePart(th) ==
    /\ app # "exited"
    /\ wr[th].pc = "write"
    /\ wr[th].part < DocParts
    /\ inodes' = {IF f.ino = wr[th].fd
                  THEN [f EXCEPT !.content =
                          WriteAt(f.content, wr[th].part + 1,
                                  [doc |-> wr[th].data,
                                   part |-> wr[th].part + 1])]
                  ELSE f : f \in inodes}
    /\ wr' = [wr EXCEPT ![th].part = wr[th].part + 1]
    /\ UNCHANGED <<bk_pc, need_backup, app, writeFrame>>

\* open(), a write, the close or os.replace raises OSError
WFail(th) ==
    /\ app # "exited"
    /\ wr[th].pc \in {"open", "write"}
    /\ wr' = [wr EXCEPT ![th].pc = "except", ![th].fd = 0]
    /\ UNCHANGED <<inodes, bk_pc, need_backup, app, writeFrame>>

\* os.replace(temp_filepath, filepath), then the rotation.  It raises
\* FileNotFoundError when no file has the temp name any more.
WReplace(th) ==
    /\ app # "exited"
    /\ wr[th].pc = "write"
    /\ wr[th].part = DocParts
    /\ IF TempAt(wr[th].name) = {}
       THEN /\ wr' = [wr EXCEPT ![th].pc = "except", ![th].fd = 0]
            /\ UNCHANGED inodes
       ELSE LET t == CHOOSE f \in TempAt(wr[th].name) : TRUE
                replaced == {f \in inodes : ~f.tmp /\ f.name = wr[th].name}
            IN /\ inodes' = rotate_files((inodes \ ({t} \cup replaced))
                                           \cup {[t EXCEPT !.tmp = FALSE]})
               /\ wr' = [wr EXCEPT ![th].pc = "done", ![th].fd = 0,
                                   ![th].ok = TRUE]
    /\ UNCHANGED <<bk_pc, need_backup, app, writeFrame>>

\* the except clause: create_backup removes the file at temp_filepath if
\* one exists and returns None; BackupManager._do_backup prints the error
WExcept(th) ==
    /\ app # "exited"
    /\ wr[th].pc = "except"
    /\ inodes' = IF wr[th].writer = "backup_manager"
                 THEN inodes \ TempAt(wr[th].name)
                 ELSE inodes
    /\ wr' = [wr EXCEPT ![th].pc = "done", ![th].ok = FALSE]
    /\ UNCHANGED <<bk_pc, need_backup, app, writeFrame>>

\* create_backup returns to _perform_backup, which does not look at what
\* it returned
WReturn(th) ==
    /\ app # "exited"
    /\ wr[th].pc = "done"
    /\ wr[th].writer = "backup_manager"
    /\ wr' = [wr EXCEPT ![th] = [WIdle EXCEPT !.ok = wr[th].ok]]
    /\ bk_pc' = [bk_pc EXCEPT ![th] = "written"]
    /\ UNCHANGED <<inodes, need_backup, app, writeFrame>>

\* BackupManager._do_backup ends: clear_backup_flag() is the last statement
\* of its try block
DoBackupReturn(th) ==
    /\ app # "exited"
    /\ wr[th].pc = "done"
    /\ wr[th].writer = "backup"
    /\ wr' = [wr EXCEPT ![th] = WIdle]
    /\ need_backup' = IF wr[th].ok THEN FALSE ELSE need_backup
    /\ bk_pc' = [bk_pc EXCEPT ![th] = "idle"]
    /\ app' = IF th = "main" THEN "exited" ELSE app
    /\ UNCHANGED <<inodes, writeFrame>>

scheduler_lets_it_escape(th) == "crashed"

\* try: self._backup_func() / except Exception: pass, in _execute_backup and
\* in force_now: the thread goes on after the call, and after force_now the
\* exit cleanup is over
scheduler_except(th) == IF th = "main" THEN "exited" ELSE app

\* The callback raises before it writes anything: get_all_clips() or
\* ensure_backup_dir() raises.  The scheduler's except clause is where the
\* exception ends (in BackupManager._do_backup, its own except clause).
BackupRaises(th) ==
    /\ app # "exited"
    /\ app # "crashed"
    /\ bk_pc[th] \in {"start", "read"}
    /\ wr[th].pc = "idle"
    /\ wr' = [wr EXCEPT ![th] = [WIdle EXCEPT !.raised = TRUE]]
    /\ bk_pc' = [bk_pc EXCEPT ![th] = "idle"]
    /\ app' = scheduler_except(th)
    /\ UNCHANGED <<inodes, need_backup, writeFrame>>

InitTxn == txn = NoTxn

InitWrite ==
    /\ inodes = {}
    /\ wr = [th \in Threads |-> WIdle]

InitAux == InitSched /\ InitCodec /\ InitDir /\ InitTxn /\ InitWrite

\* the clock readings at which the scheduler is looked at: around each
\* multiple of the debounce interval
SchedTicks == {1, DebounceMs - 1}
SchedTimes ==
    {t \in {k * DebounceMs + e : k \in 0..MaxDebounces, e \in {-1, 0, 1}} :
        t >= 0}

(***************************************************************************)
(* What the claims remember of the calls made.                             *)
(***************************************************************************)
IdsOf(rows) == {r.id : r \in rows}

\* entries of last_add whose row a delete or a clear has removed are dropped
Kept(rows) == {e \in last_add : e.id \in IdsOf(rows)}

PinRanks == {<<r.id, r.is_pinned, r.pin_order>> : r \in clips}

\* a pinned clip ranks beyond clip_id in direction d
NotAtBoundary(clip_id, d) ==
    \E r \in PinnedRows, o \in PinnedRows :
        r.id = clip_id /\ o.id # clip_id /\ (o.pin_order - r.pin_order) * d > 0

LargestPinOrder ==
    IF PinnedRows = {} THEN 0
    ELSE CHOOSE m \in {r.pin_order : r \in PinnedRows} :
           \A r \in PinnedRows : r.pin_order <= m

HistPin(clip_id) ==
    IF \E r \in HistoryRows : r.id = clip_id
    THEN IF hist # <<>> /\ hist[1] = "pins"
         THEN <<"pins", Append(hist[2], <<clip_id, LargestPinOrder + 1>>),
                hist[3]>>
         ELSE <<"pins", <<<<clip_id, LargestPinOrder + 1>>>>,
                IdsOf(PinnedRows)>>
    ELSE <<>>

HistMove(clip_id, d, p) ==
    IF p /\ RowsById(clip_id) # {}
    THEN <<"move", clip_id, d, PinRanks, NotAtBoundary(clip_id, d)>>
    ELSE <<>>

Init ==
    /\ clips = {}
    /\ next_id = 1
    /\ now = 0
    /\ need_backup = FALSE
    /\ backup_callback = "none"
    /\ cb_calls = 0
    /\ ret = <<>>
    /\ timer = NoTimer
    /\ app = "running"
    /\ bk_pc = [th \in Threads |-> "idle"]
    /\ bk_data = [th \in Threads |-> {}]
    /\ files = {}
    /\ hist = <<>>
    /\ last_add = {}
    /\ calls = 0
    /\ InitAux
    /\ InitRec

\* The bounds: the number of rows ever inserted, and the largest pin_order.
Within(max_id) ==
    /\ next_id' <= max_id + 1
    /\ \A r \in clips' : r.pin_order <= MaxPinOrder

\* A call of a storage operation by the UI thread.
Call(max_id) ==
    /\ calls' = calls + 1
    /\ Within(max_id)
    /\ UNCHANGED <<now, backup_callback, backupVars>>
    /\ UNCHANGED auxVars

Track(h) ==
    /\ hist' = h
    /\ last_add' = Kept(clips')

TrackAdd(content) ==
    /\ hist' = <<>>
    /\ last_add' = {e \in Kept(clips') : e.content # content} \cup
         {[content |-> content, id |-> ret'[1],
           updated_at |-> (CHOOSE r \in clips' : r.id = ret'[1]).updated_at]}

Next ==
    \/ /\ calls < MaxCalls
       /\ \/ \E recs \in RecLists :
               import_clips(recs) /\ Call(MaxId) /\ Track(<<"import", recs>>)
          \/ \E inp \in AddInputs :
               add_clip(inp[1], inp[2]) /\ Call(MaxId) /\ TrackAdd(inp[2])
          \/ \E id \in Ids : pin_clip(id) /\ Call(MaxId) /\ Track(HistPin(id))
          \/ \E id \in Ids : unpin_clip(id) /\ Call(MaxId) /\ Track(<<>>)
          \/ \E id \in Ids : delete_clip(id) /\ Call(MaxId) /\ Track(<<>>)
          \/ \E id \in Ids, tag \in Tags :
               update_tag(id, tag) /\ Call(MaxId) /\ Track(<<>>)
          \/ \E id \in Ids, g \in Groups :
               update_group(id, g) /\ Call(MaxId) /\ Track(<<>>)
          \/ \E id \in Ids, d \in Directions, p \in BOOLEAN :
               move_clip(id, d, p) /\ Call(MaxId) /\ Track(HistMove(id, d, p))
          \/ clear_history /\ Call(MaxId) /\ Track(<<>>)
          \/ clear_pinned /\ Call(MaxId) /\ Track(<<>>)
    \/ set_backup_callback
    \/ Tick(1) /\ now' <= MaxTime

Spec == Init /\ [][Next]_vars

(***************************************************************************)
(* The pinned list alone.  is_pinned and pin_order are read and written    *)
(* only by the calls below; tags, groups, timestamps and the history order *)
(* do not reach them, so the clock stands still here, the calls are not    *)
(* counted and more rows are allowed.                                      *)
(***************************************************************************)
CallPin ==
    /\ Within(MaxPinId)
    /\ UNCHANGED <<now, backup_callback, backupVars, calls, last_add>>
    /\ UNCHANGED auxVars

PinInputs == {inp \in AddInputs : inp[2] # "d"}
\* one pinned record a call: a longer list leaves the rows that as many
\* calls leave
PinRecLists == {<<clip>> : clip \in {c \in ImportRecords : c.is_pinned}}

NextPin ==
    \/ \E inp \in PinInputs : add_clip(inp[1], inp[2]) /\ CallPin /\ hist' = <<>>
    \/ \E id \in PinIds : pin_clip(id) /\ CallPin /\ hist' = HistPin(id)
    \/ \E id \in PinIds : unpin_clip(id) /\ CallPin /\ hist' = <<>>
    \/ \E id \in PinIds : delete_clip(id) /\ CallPin /\ hist' = <<>>
    \/ \E id \in PinIds, d \in Directions :
         move_clip(id, d, TRUE) /\ CallPin /\ hist' = HistMove(id, d, TRUE)
    \/ clear_history /\ CallPin /\ hist' = <<>>
    \/ clear_pinned /\ CallPin /\ hist' = <<>>
    \/ \E recs \in PinRecLists :
         import_clips(recs) /\ CallPin /\ hist' = <<>>

SpecPin == Init /\ [][NextPin]_vars

(***************************************************************************)
(* The history list alone: clips are added as the clock goes on, or stands *)
(* still between two readings, and are moved or pinned.                    *)
(***************************************************************************)
HistMoveHistory(clip_id, d) ==
    IF clip_id \in IdsOf(HistoryRows) THEN <<"hmove", clip_id, d>> ELSE <<>>

\* a row of a snapshot: an unpinned clip whose updated_at was written at a
\* later reading of the local clock than the present one
RecHistoryLater == Rec("c", "image", "", "", FALSE, 0, "h3", 1, 1)

NextHist ==
    \/ \E inp \in PinInputs : add_clip(inp[1], inp[2]) /\ CallPin /\ hist' = <<>>
    \/ \E id \in PinIds, d \in Directions :
         move_clip(id, d, FALSE) /\ CallPin /\ hist' = HistMoveHistory(id, d)
    \/ \E id \in PinIds : pin_clip(id) /\ CallPin /\ hist' = <<>>
    \/ import_clips(<<RecHistoryLater>>) /\ CallPin /\ hist' = <<>>
    \/ Tick(1) /\ now' <= MaxTime

SpecHist == Init /\ [][NextHist]_vars

(***************************************************************************)
(* The running application: ClientApp.__init__ has registered              *)
(* BackupScheduler.schedule as the store's callback.  The UI thread makes  *)
(* storage calls and at last runs the exit cleanup; the timer's thread     *)
(* runs the backup when the armed timer expires.                           *)
(***************************************************************************)
InitExit ==
    /\ clips = {}
    /\ next_id = 1
    /\ now = 0
    /\ need_backup = FALSE
    /\ backup_callback = "schedule"
    /\ cb_calls = 0
    /\ ret = <<>>
    /\ timer = NoTimer
    /\ app = "running"
    /\ bk_pc = [th \in Threads |-> "idle"]
    /\ bk_data = [th \in Threads |-> {}]
    /\ files = {}
    /\ hist = <<>>
    /\ last_add = {}
    /\ calls = 0
    /\ InitAux
    /\ InitRec

CallUI ==
    /\ calls' = calls + 1
    /\ Within(MaxId)
    /\ UNCHANGED <<now, backup_callback, backupVars, hist, last_add>>
    /\ UNCHANGED auxVars

NextExit ==
    \/ /\ app = "running"
       /\ calls < MaxCalls
       /\ \/ \E inp \in AddInputs : add_clip(inp[1], inp[2]) /\ CallUI
          \/ \E id \in Ids : delete_clip(id) /\ CallUI
          \/ \E id \in Ids : pin_clip(id) /\ CallUI
    \/ Tick(DebounceMs) /\ now' <= MaxDebounces * DebounceMs
    \/ TimerFire
    \/ \E th \in Threads : BackupRead(th)
    \/ \E th \in Threads : BackupWrite(th)
    \/ \E th \in Threads : BackupClear(th)
    \/ cleanup_on_exit

SpecExit == InitExit /\ [][NextExit]_vars

(***************************************************************************)
(* The calls that write several rows, statement by statement, with the     *)
(* timer's thread reading the store for a backup at any moment; what the   *)
(* backup does with the rows it has read is left out here.                 *)
(***************************************************************************)
TxnIds == 1..MaxTxnId

\* the stores the calls start from: empty; clip 1 in the history and clips
\* 2 and 3 pinned in turn; three clips of the history after a move
TxnStores ==
    {{},
     {NewRow(1, "text", "a", "h1", "", FALSE, 0),
      [NewRow(2, "text", "b", "h2", "", TRUE, 0) EXCEPT !.pin_order = 1],
      [NewRow(3, "image", "c", "h3", "", TRUE, 0) EXCEPT !.pin_order = 2]},
     {NewRow(1, "text", "a", "h1", "", FALSE, 0 - MoveDeltaMs),
      NewRow(2, "text", "b", "h2", "", FALSE, 0),
      NewRow(3, "image", "c", "h3", "", FALSE, 0 - 2 * MoveDeltaMs)}}

InitTxnSpec ==
    /\ clips \in TxnStores
    /\ next_id = Cardinality(clips) + 1
    /\ now = 0
    /\ need_backup = FALSE
    /\ backup_callback = "schedule"
    /\ cb_calls = 0
    /\ ret = <<>>
    /\ timer = NoTimer
    /\ app = "running"
    /\ bk_pc = [th \in Threads |-> "idle"]
    /\ bk_data = [th \in Threads |-> {}]
    /\ files = {}
    /\ hist = <<>>
    /\ last_add = {}
    /\ calls = 0
    /\ InitAux
    /\ InitRec

NextTxn ==
    \/ \E id \in TxnIds, d \in Directions : TxMovePinned(id, d)
    \/ \E id \in TxnIds, d \in Directions : TxMoveHistory(id, d)
    \/ \E recs \in PinRecLists \cup {<<RecLegacyA, RecPinnedC>>} : TxImport(recs)
    \/ TxWrite
    \/ TxFail
    \/ TxCommit
    \/ TimerFire
    \/ BackupRead("timer")
    \/ Tick(DebounceMs) /\ now' <= DebounceMs

SpecTxn == InitTxnSpec /\ [][NextTxn]_vars

(***************************************************************************)
(* The running application with a backup directory whose writes can fail:  *)
(* the UI thread adds clips and runs the exit cleanup, the timer's thread  *)
(* runs the backup when the timer expires, and each backup is written by   *)
(* create_backup or by BackupManager._do_backup, step by step.             *)
(***************************************************************************)
\* what the UI thread adds
FailInputs == {<<"text", "a">>, <<"text", "b">>}

NextFail ==
    \/ /\ app = "running"
       /\ calls < MaxFailCalls
       /\ \E inp \in FailInputs : add_clip(inp[1], inp[2]) /\ CallUI
    \/ Tick(DebounceMs) /\ now' <= 2 * DebounceMs
    \/ TimerFire
    \/ cleanup_on_exit
    \/ \E th \in Threads : BackupRead(th)
    \/ \E th \in Threads : BackupRaises(th)
    \/ \E th \in Threads, writer \in Writers : WBegin(th, writer)
    \/ \E th \in Threads : WOpen(th)
    \/ \E th \in Threads : WWritePart(th)
    \/ \E th \in Threads : WFail(th)
    \/ \E th \in Threads : WReplace(th)
    \/ \E th \in Threads : WExcept(th)
    \/ \E th \in Threads : WReturn(th)
    \/ \E th \in Threads : DoBackupReturn(th)
    \/ \E th \in Threads : BackupClear(th)

SpecFail == InitExit /\ [][NextFail]_vars

(***************************************************************************)
(* The application left running: the UI thread makes a bounded number of   *)
(* calls, each early enough for its timer to expire within the clock's     *)
(* range; the clock goes on, an expired timer fires, and the timer's       *)
(* thread takes its steps (weak fairness); create_backup succeeds.         *)
(***************************************************************************)
NextLive ==
    \/ /\ app = "running"
       /\ calls < MaxFailCalls
       /\ now < 2 * DebounceMs
       /\ \/ \E inp \in FailInputs : add_clip(inp[1], inp[2]) /\ CallUI
          \/ \E id \in Ids : delete_clip(id) /\ CallUI
    \/ Tick(DebounceMs) /\ now' <= 2 * DebounceMs
    \/ TimerFire
    \/ BackupRead("timer")
    \/ BackupWrite("timer")
    \/ BackupClear("timer")

Progress ==
    /\ WF_vars(Tick(DebounceMs) /\ now' <= 2 * DebounceMs)
    /\ WF_vars(TimerFire)
    /\ WF_vars(BackupRead("timer"))
    /\ WF_vars(BackupWrite("timer"))
    /\ WF_vars(BackupClear("timer"))

SpecLive == InitExit /\ [][NextLive]_vars /\ Progress

(***************************************************************************)
(* The scheduler alone: one calling thread and the timers' threads.        *)
(***************************************************************************)
NextSched ==
    \/ schedule
    \/ \E k \in TimerIds : TimerWake(k)
    \/ \E k \in TimerIds : TimerCancelled(k)
    \/ \E k \in TimerIds : ExecuteLock(k)
    \/ \E k \in TimerIds : ExecuteBackup(k)
    \/ ForceLock
    \/ ForceBackup
    \/ cancel
    \/ \E d \in SchedTicks : Tick(d) /\ now' \in SchedTimes

SpecSched == Init /\ [][NextSched]_vars

(***************************************************************************)
(* The codec alone: documents are written, changed on disk and validated.  *)
(***************************************************************************)
NextCodec ==
    \/ \E clip_list \in Collections : CodecWrite(clip_list)
    \/ \E clip_list \in Collections : CodecWriteV2(clip_list)
    \/ \E field \in {"version", "created_at", "clip_count", "clips",
                      "history", "pinned"} :
         \E value \in FieldValues(field) : Tamper(field, value)
    \/ \E field \in {"checksum", "clips", "history", "pinned"} : Strip(field)
    \/ \E kind \in {"not_json", "not_utf8"} : Damage(kind)
    \/ CodecValidate
    \/ Tick(1) /\ now' <= MaxTime

SpecCodec == Init /\ [][NextCodec]_vars

(***************************************************************************)
(* The backup directory alone: backups are written as seconds pass.        *)
(***************************************************************************)
NextDir ==
    \/ \E clip_list \in DirContents : PerformBackup(clip_list)
    \/ Tick(MsPerSecond) /\ now' <= MaxDirSeconds * MsPerSecond

SpecDir == Init /\ [][NextDir]_vars

(***************************************************************************)
(* Startup recovery alone, from every small content of the disk.           *)
(***************************************************************************)
\* what a backup file may hold: a document as written, a written document
\* whose clips were changed, text that is no JSON, bytes that are no UTF-8
FileContents ==
    {JsonFile(backup_data(clip_list)) : clip_list \in Collections}
    \cup {JsonFile([backup_data(pair[1]) EXCEPT !.clips = pair[2]]) :
            pair \in {q \in Collections \X Collections : q[1] # q[2]}}
    \cup {[kind |-> "not_json"], [kind |-> "not_utf8"]}

BackupDirs ==
    UNION {{{[name |-> n, content |-> f[n]] : n \in S} :
              f \in [S -> FileContents]} :
           S \in SUBSET (1..MaxBackupFiles)}

LegacyFiles ==
    {NoLegacy,
     [exists |-> TRUE, pinned |-> <<"a", "b">>, history |-> <<>>],
     [exists |-> TRUE, pinned |-> <<>>, history |-> <<"c">>],
     [exists |-> TRUE, pinned |-> <<"b">>, history |-> <<"a", "c">>]}

InitRecover ==
    /\ \/ clips = {} /\ next_id = 1
       \/ clips = {NewRow(1, "text", "d", "h1", "", FALSE, 0)} /\ next_id = 2
    /\ now = 0
    /\ need_backup = FALSE
    /\ backup_callback = "none"
    /\ cb_calls = 0
    /\ ret = <<>>
    /\ timer = NoTimer
    /\ app = "running"
    /\ bk_pc = [th \in Threads |-> "idle"]
    /\ bk_data = [th \in Threads |-> {}]
    /\ files = {}
    /\ hist = <<>>
    /\ last_add = {}
    /\ calls = 0
    /\ InitAux
    /\ bdir \in [backups : BackupDirs, legacy : LegacyFiles]
    /\ rstat = [pc |-> "start", path |-> 0]

NextRecover == init_data

SpecRecover == InitRecover /\ [][NextRecover]_vars

(***************************************************************************)
(* The claims.                                                             *)
(***************************************************************************)
\* This step is the call add_clip(inp[1], inp[2]).
IsAddClip(inp) == calls' = calls + 1 /\ add_clip(inp[1], inp[2])

\* C1 (as claimed): a second add_clip of a content, with no delete or clear
\* of its clip since the first, returns the first call's id with
\* is_new = false, leaves exactly one row with the content's hash, and leaves
\* updated_at strictly greater than the first call left it.
C1_DedupAdvancesUpdatedAt ==
    [][\A inp \in AddInputs : \A e \in last_add :
         (e.content = inp[2] /\ IsAddClip(inp)) =>
            /\ ret' = <<e.id, 0>>
            /\ Cardinality({r \in clips' : r.hash = compute_hash(inp[2])}) = 1
            /\ \A r \in clips' : r.id = e.id => r.updated_at > e.updated_at
      ]_vars

\* C2: no two rows of the store have the same hash.
C2_HashUnique ==
    \A r1 \in clips, r2 \in clips : r1.hash = r2.hash => r1 = r2

\* an import has just met a row that add_clip had stored under its hash
C2_Witness ==
    /\ hist = <<"import", <<RecPinnedB>>>>
    /\ \E r \in HistoryRows : r.hash = "h2" /\ r.content = "b"
    /\ Cardinality(clips) = 2

\* C3 (as claimed): every row's hash is compute_hash of its content, also
\* for rows that import_clips made from records with a hash field of their
\* own, and so no two rows hold the same content.
C3_HashIsOfContent ==
    /\ \A r \in clips : r.hash = compute_hash(r.content)
    /\ \A r1 \in clips, r2 \in clips : r1.content = r2.content => r1 = r2

\* C4 (as claimed): no two pinned clips have the same pin_order.
C4_PinOrderUnique ==
    \A r1 \in PinnedRows, r2 \in PinnedRows :
        r1.pin_order = r2.pin_order => r1 = r2

\* C5: after pin_clip on distinct unpinned clips c1..cN in sequence, with no
\* other call between, each holds the rank (largest rank among the clips
\* pinned at its call, or 0) + 1 and get_pinned lists cN, ..., c1 ahead of
\* the clips that were pinned before.
C5_PinOrdering ==
    (hist # <<>> /\ hist[1] = "pins") =>
        LET run == hist[2]
            before == hist[3]
            n == Len(run)
        IN /\ \A k \in 1..n :
                \E r \in PinnedRows : r.id = run[k][1] /\ r.pin_order = run[k][2]
           /\ IdsOf(PinnedRows) = before \cup {run[k][1] : k \in 1..n}
           /\ \A f \in get_pinned :
                /\ Len(f) = n + Cardinality(before)
                /\ \A k \in 1..n : f[k] = run[n + 1 - k][1]

\* two clips pinned in sequence while another was pinned already
C5_Witness ==
    /\ hist # <<>>
    /\ hist[1] = "pins"
    /\ Len(hist[2]) = 2
    /\ hist[3] # {}
    /\ Cardinality(PinnedRows) = 3

\* C6 (as claimed): move_clip(id, -d, True) followed by move_clip(id, d, True),
\* neither call taking the clip past an end of the pinned order, restores
\* every clip's pin_order.
C6_MoveInverse ==
    [][\A id \in PinIds, d \in Directions :
         ( /\ hist # <<>> /\ hist[1] = "move" /\ hist[2] = id /\ hist[3] = -d
           /\ hist[5]
           /\ NotAtBoundary(id, d)
           /\ hist' # <<>> /\ hist'[1] = "move" /\ hist'[2] = id
           /\ hist'[3] = d )
         => PinRanks' = hist[4]
      ]_vars

\* C7 (as claimed): a second import_clips of the same records inserts
\* nothing and leaves the rows as they were, and each record's content is
\* held by at most one row.
C7_ImportIdempotent ==
    [][\A recs \in RecLists :
         (hist = <<"import", recs>> /\ hist' = <<"import", recs>>
            /\ calls' = calls + 1)
         => /\ clips' = clips
            /\ next_id' = next_id
            /\ \A k \in 1..Len(recs) :
                 Cardinality({r \in clips' : r.content = recs[k].content}) <= 1
      ]_vars

\* C8 (as claimed): import_clips returns the number of rows it inserted, so
\* a second call with the same records returns 0.
C8_ImportCount ==
    [][\A recs \in RecLists :
         (hist' = <<"import", recs>> /\ calls' = calls + 1)
         => /\ ret' = <<Cardinality(clips') - Cardinality(clips)>>
            /\ hist = <<"import", recs>> => ret' = <<0>>
      ]_vars

\* C9 (as claimed): each call of a mutating storage operation sets
\* need_backup and invokes the registered callback exactly once.
C9_MarkDirtyOnce ==
    [][calls' = calls + 1 =>
         /\ need_backup'
         /\ backup_callback = "schedule" => cb_calls' = 1
      ]_vars

\* C10 (as claimed): once the exit cleanup has run, the newest snapshot on
\* disk holds the rows as every committed call left them.
C10_ShutdownDurable ==
    (app = "exited" /\ calls > 0) =>
        /\ files # {}
        /\ Newest.data = clips

\* every timer thread has ended and no scheduler call is under way
Quiescent ==
    /\ caller = "idle"
    /\ \A k \in TimerIds : timers[k].pc \in {"none", "dead", "done"}

\* this step is timer k's thread invoking the backup callback
TimerBackupStep(k) == timers[k].pc = "backup" /\ timers'[k].pc = "done"

\* the timers of the latest burst that have invoked the backup callback
BurstRuns == {k \in TimerIds : k >= slog.burst /\ timers[k].pc = "done"}

\* C11 (as claimed): a burst of N >= 1 schedule() calls, each less than the
\* debounce interval after the one before, with no force_now() or cancel(),
\* leads to at most one invocation of the backup callback, and to exactly
\* one by the time every timer has ended.
C11_DebounceCoalesces ==
    (slog.n_calls >= 1 /\ slog.forced = 0 /\ slog.cancels = 0
       /\ caller # "force") =>
        /\ Cardinality(BurstRuns) <= 1
        /\ Quiescent => Cardinality(BurstRuns) = 1

\* C12 (as claimed): a timer's thread never invokes the backup callback
\* while less than the debounce interval has passed since the most recent
\* schedule() call returned.
C12_NotBeforeInterval ==
    [][\A k \in TimerIds :
         (TimerBackupStep(k) /\ slog.n_calls > 0) =>
            now - slog.last_sched >= DebounceMs
      ]_vars

\* C13 (as claimed): at most one timer is armed at any moment, and a timer
\* that was cancelled never afterwards invokes the backup callback.
C13_OneTimerNoStaleFire ==
    [][/\ Cardinality({k \in TimerIds : Armed(k)'}) <= 1
       /\ \A k \in TimerIds : TimerBackupStep(k) => ~timers[k].finished
      ]_vars

\* C14 (as claimed): force_now() runs the backup callback once on the
\* calling thread; when it returns self._timer is None and no timer is
\* armed, and no timer's thread invokes the callback until the next
\* schedule() call.
C14_ForceNow ==
    [][/\ (caller = "force" /\ caller' = "idle") =>
             /\ slog'.forced = slog.forced + 1
             /\ s_timer' = 0
             /\ \A k \in TimerIds : ~Armed(k)'
       /\ \A k \in TimerIds : TimerBackupStep(k) => ~slog.since_force
      ]_vars
(***************************************************************************)
(* Claims about the snapshot codec, under SpecCodec.                       *)
(***************************************************************************)
Range(f) == {f[i] : i \in DOMAIN f}

\* the validators have read the document exactly as a writer left it
ReadAsWritten == vres.of.kind = "json" /\ vres.of = orig

\* the validators have read a written document of which one field other
\* than the checksum was changed
ReadChanged ==
    /\ vres.of.kind = "json"
    /\ orig.kind = "json"
    /\ vres.of # orig
    /\ vres.of.value.checksum = orig.value.checksum

\* C15 (as claimed): validating the document a backup writer produced of a
\* clip collection succeeds and returns the collection that was serialized:
\* create_backup's document under backup_manager.validate_backup gives the
\* same list, BackupManager._do_backup's document under
\* BackupManager.validate_backup gives the same clips, pinned ones first.
C15_ChecksumRoundTrip ==
    /\ (ReadAsWritten /\ orig.value.version = 1)
         => vres.v1.ok /\ vres.v1.clips = src
    /\ (ReadAsWritten /\ orig.value.version = 2)
         => /\ vres.v2.ok
            /\ vres.v2.clips = SelectSeq(src, IsPinnedClip)
                                 \o SelectSeq(src, IsHistoryClip)

C15_Witness ==
    /\ ReadAsWritten
    /\ orig.value.version = 1
    /\ Len(src) = MaxDocClips
    /\ src[1] # src[2]
    /\ vres.v1.ok
    /\ vres.v1.clips = src

\* C16 (as claimed): when any part of a document written by create_backup
\* other than its checksum is changed (a clip, version, created_at or
\* clip_count) and the checksum is left as it was, validate_backup fails.
C16_ChecksumCoversAllFields ==
    (ReadChanged /\ orig.value.version = 1) => ~vres.v1.ok

\* C17 (as claimed): the validator accepts a checksum-correct document of
\* either layout, the flat clips list of version 1 and the history and
\* pinned lists of version 2, and yields its clips.
C17_BothLayoutsValidate ==
    ReadAsWritten
      => /\ vres.v1.ok
         /\ Range(vres.v1.clips) = Range(src)

(***************************************************************************)
(* Claims about the backup directory, under SpecDir.                       *)
(***************************************************************************)
\* C18 (as claimed): once more than MAX_BACKUPS backups have been written,
\* each followed by rotation, exactly MAX_BACKUPS files remain; there are
\* never more than MAX_BACKUPS files after a rotation.
C18_RotationBound ==
    /\ Cardinality(files) <= MAX_BACKUPS
    /\ writes > MAX_BACKUPS => Cardinality(files) = MAX_BACKUPS

\* C19 (as claimed): a written backup file never changes: in every step it
\* stays as it is, or it is gone because rotation deleted it as older than
\* the MAX_BACKUPS files that are kept.
C19_SnapshotImmutable ==
    [][\A f \in files :
         \/ f \in files'
         \/ /\ \A g \in files' : g.name > f.name
            /\ Cardinality(files') = MAX_BACKUPS
      ]_vars

(***************************************************************************)
(* Claims about startup recovery, under SpecRecover.                       *)
(***************************************************************************)
\* the backups on disk that are sound: JSON documents with a clips list
\* and the checksum of that list
ValidBackups ==
    {f \in bdir.backups :
       /\ f.content.kind = "json"
       /\ {"clips", "checksum"} \subseteq DOMAIN f.content.value
       /\ f.content.value.checksum
            = compute_checksum(json_dumps(f.content.value.clips))}

\* C20 (as claimed): when recovery has run on an empty store and some
\* backup on disk is sound, the records of the newest sound backup are
\* imported, whatever the newer files that fail validation hold, and the
\* store holds those records and no others.
C20_RecoveryCascade ==
    (/\ rstat.pc \notin {"start", "kept"}
     /\ ValidBackups # {}
     /\ NewestOf(ValidBackups).content.value.clips # <<>>)
      => /\ rstat.pc = "backup"
         /\ rstat.path = NewestOf(ValidBackups).name
         /\ {r.content : r \in clips}
              = {c.content :
                   c \in Range(NewestOf(ValidBackups).content.value.clips)}

\* C21 (as claimed): after recovery from a legacy file with n pinned
\* entries the store holds n pinned clips whose pin_order is n, n-1, ..., 1
\* in the order of the list, and get_pinned returns them in that order.
C21_LegacyPinOrder ==
    rstat.pc = "legacy"
      => /\ \A i \in 1..Len(bdir.legacy.pinned) :
              \E r \in clips :
                 /\ r.content = bdir.legacy.pinned[i]
                 /\ r.is_pinned
                 /\ r.pin_order = Len(bdir.legacy.pinned) - (i - 1)
         /\ \A f \in get_pinned :
              [i \in DOMAIN f |-> RowOf(f[i]).content] = bdir.legacy.pinned

\* the backups on disk that are sound and hold at least one clip
YieldingBackups ==
    {f \in ValidBackups : f.content.value.clips # <<>>}

\* C22 (as claimed): recovery that ran to its end on an empty store stopped
\* at the newest sound backup that holds a record, going past sound backups
\* that hold none, and read the legacy file only when no backup holds one.
C22_TierOrder ==
    rstat.pc \in {"backup", "legacy", "fresh"}
      => /\ YieldingBackups # {}
              => /\ rstat.pc = "backup"
                 /\ rstat.path = NewestOf(YieldingBackups).name
         /\ rstat.pc = "legacy" => YieldingBackups = {}

\* C30 (as claimed): no two unpinned clips have the same updated_at, also
\* after recovery has imported clips from a backup or a legacy file.
C30_HistoryTotalOrder ==
    \A r1 \in HistoryRows, r2 \in HistoryRows :
        r1 # r2 => r1.updated_at # r2.updated_at

(***************************************************************************)
(* Claims about the moves, under SpecPin and Spec.                         *)
(***************************************************************************)
\* the pinned clip next to clip_id in direction d of the pinned order
NeighbourOf(clip_id, d) ==
    CHOOSE o \in PinnedRows :
        /\ (o.pin_order - RowOf(clip_id).pin_order) * d > 0
        /\ \A q \in PinnedRows :
             (q.pin_order - RowOf(clip_id).pin_order) * d > 0
               => (q.pin_order - o.pin_order) * d >= 0

\* the ranks after clip_id and its neighbour have exchanged pin_order
RanksSwapped(clip_id, d) ==
    {<<r.id, r.is_pinned,
       IF r.id = clip_id THEN NeighbourOf(clip_id, d).pin_order
       ELSE IF r.id = NeighbourOf(clip_id, d).id
       THEN RowOf(clip_id).pin_order
       ELSE r.pin_order>> : r \in clips}

\* C28 (as claimed): move_clip(id, d, True) on a pinned clip, the pinned
\* clips having distinct pin_order, leaves the ranks as they are when no
\* pinned clip ranks beyond it in direction d, and otherwise swaps its
\* pin_order with that of its immediate neighbour in that direction.
C28_PinnedMoveSwapsNeighbour ==
    [][\A id \in PinIds, d \in Directions :
         ( /\ hist' # <<>>
           /\ hist' = HistMove(id, d, TRUE)
           /\ id \in IdsOf(PinnedRows)
           /\ \A r1 \in PinnedRows, r2 \in PinnedRows :
                r1 # r2 => r1.pin_order # r2.pin_order )
         => IF NotAtBoundary(id, d)
            THEN PinRanks' = RanksSwapped(id, d)
            ELSE PinRanks' = PinRanks
      ]_vars

\* the fields of the rows that a move of history clips leaves alone
RowsButTime == {[r EXCEPT !.updated_at = 0] : r \in clips}

\* C29: move_clip(id, d, False) on an unpinned clip at position i of the
\* history order it reads: with i + d inside the list, the history order
\* is afterwards that order with positions i and i + d exchanged and it is
\* the only order the rewritten updated_at values allow; with i + d outside
\* the list no row changes.  Nothing but updated_at of the history rows is
\* written.
C29_HistoryMove ==
    [][\A id \in PinIds, d \in Directions :
         ( /\ hist' = <<"hmove", id, d>>
           /\ now' = now
           /\ id \in IdsOf(HistoryRows) )
         => \E f \in get_history :
              LET i == IndexOf(f, id) IN
              /\ IF 1 <= i + d /\ i + d <= Len(f)
                 THEN get_history' = {SwapAt(f, i, i + d)}
                 ELSE clips' = clips
              /\ PinnedRows' = PinnedRows
              /\ RowsButTime' = RowsButTime
      ]_vars

\* a move has exchanged two clips of a history of three
C29_Witness ==
    /\ hist # <<>>
    /\ hist[1] = "hmove"
    /\ Cardinality(HistoryRows) = 3
    /\ \E f \in get_history : f[2] = hist[2] /\ hist[3] = 1 /\ f[3] = 3
    /\ Cardinality(get_history) = 1

(***************************************************************************)
(* Claims about failing writes, under SpecTxn.                             *)
(***************************************************************************)
\* C26: while a call that writes several rows is under way the committed
\* rows, which the caller's other reads and a backup's read see, are the
\* rows of before the call; when one of its statements fails the call
\* raises and the rows are those of before the call.
C26_FailedWriteRollsBack ==
    [][/\ txn.op # "none" => clips = txn.saved
       /\ (txn.op # "none" /\ txn'.op = "none" /\ ret' = Raised)
            => clips' = txn.saved
       /\ \A th \in Threads :
            (txn.op # "none" /\ bk_pc[th] = "start" /\ bk_pc'[th] = "read")
              => bk_data'[th] = txn.saved
      ]_vars

\* a statement failed after two others had changed rows on the connection
C26_Witness ==
    /\ txn.op = "none"
    /\ ret = Raised
    /\ txn.done = 2
    /\ Cardinality(PinnedRows) >= 2

\* a complete snapshot document whose checksum fits it
Complete(content) ==
    IF ReadFile(content).kind # "json" THEN FALSE
    ELSE IF ReadFile(content).value.version = 1
         THEN validate_backup(ReadFile(content)).ok
         ELSE validate_backup_v2(ReadFile(content)).ok

\* C23: at every moment, also while a snapshot is being written and after a
\* write failed, every file of the backup directory under a final name holds
\* a complete snapshot document whose checksum fits it; what is partly
\* written is under a temp name only, which get_backup_files does not list.
C23_FinalFilesComplete ==
    /\ \A f \in inodes : ~f.tmp => Complete(f.content)
    /\ \A f \in get_backup_files : ~f.tmp


\* the thread's write attempt ends in the except clause at this step
FailedAttemptEnds(th) == wr[th].pc = "except" /\ wr'[th].pc = "done"

\* C24: when a snapshot write fails, on an error while the temp file is
\* written or while it is renamed, every snapshot file that was there before
\* the attempt is still there with the same content, none was rotated away,
\* and no file is left under the temp name.  (Stated of an attempt no other
\* writer overlapped.)
C24_FailedWriteLeavesNothing ==
    [][\A th \in Threads :
         (FailedAttemptEnds(th) /\ wr[th].solo)
           => /\ get_backup_files' = wr[th].before
              /\ TempAt(wr[th].name)' = {}
      ]_vars

\* C25: need_backup goes from true to false only at the end of a backup
\* whose snapshot file was written; after an attempt that failed to write it
\* the flag is still true.
C25_FlagClearedOnlyWhenWritten ==
    [][(need_backup /\ ~need_backup')
         => \E th \in Threads :
               /\ bk_pc[th] # "idle"
               /\ bk_pc'[th] = "idle"
               /\ wr[th].ok
      ]_vars


\* the backup callback run by this thread raises at this step
CallbackRaises(th) ==
    /\ bk_pc[th] \in {"start", "read"}
    /\ bk_pc'[th] = "idle"
    /\ wr'[th].raised

\* C27: an exception the backup callback raises, run by the expired timer
\* or by force_now(), ends in the scheduler: the application never crashes
\* of it, the timer's thread ends and force_now() returns to the exit
\* cleanup, and the rows the storage calls committed stay as they are.
C27_CallbackExceptionCaught ==
    [][/\ app' # "crashed"
       /\ \A th \in Threads :
            CallbackRaises(th)
              => /\ app' = (IF th = "main" THEN "exited" ELSE app)
                 /\ clips' = clips
                 /\ need_backup' = need_backup
      ]_vars

\* the callback has raised on the timer's thread, the UI thread has added
\* another clip since, and the callback has raised again under force_now()
C27_Witness ==
    /\ wr["timer"].raised
    /\ wr["main"].raised
    /\ app = "exited"
    /\ calls = 2
    /\ Cardinality(clips) = 2



\* f, an order of one view, is paged as LIMIT and OFFSET say
PagedRight(f) ==
    \A limit \in 1..MaxLimit :
       /\ AllPages(f, limit, 0) = f
       /\ \A offset \in 0..Len(f) :
            LET p == Page(f, limit, offset) IN
            /\ Len(p) <= limit
            /\ Len(p) = limit \/ offset + Len(p) = Len(f)
            /\ \A k \in 1..Len(p) :
                 offset + k <= Len(f) /\ p[k] = f[offset + k]

RowsButTagGroup ==
    {[id |-> r.id, type |-> r.type, content |-> r.content, hash |-> r.hash,
      is_pinned |-> r.is_pinned, pin_order |-> r.pin_order,
      updated_at |-> r.updated_at] : r \in clips}

\* C32: update_tag and update_group change the tag or the group_name of the
\* addressed row and nothing else: is_pinned, pin_order, updated_at, content
\* and hash of every row stay, every other row stays as it is, and
\* get_history and get_pinned return the orders they returned before.
C32_TagGroupFrame ==
    [][\A id \in Ids, v \in Tags \cup Groups :
         (update_tag(id, v) \/ update_group(id, v))
           => /\ RowsButTagGroup' = RowsButTagGroup
              /\ \A r \in clips : r.id # id => r \in clips'
              /\ \A r \in clips :
                   r.id = id =>
                     \/ [r EXCEPT !.tag = v] \in clips'
                     \/ [r EXCEPT !.group_name = v] \in clips'
              /\ get_history' = get_history
              /\ get_pinned' = get_pinned
      ]_vars

\* a store of two clips one of which update_group has given a group
C32_Witness ==
    /\ Cardinality(clips) = 2
    /\ \E r \in clips : r.group_name = "g"


\* C33: right after add_clip(type, content) has returned, for a content no
\* pinned clip holds, the clip it returned is the first element of
\* get_history, new or duplicate, whatever history moves and imports have
\* written into the updated_at of other clips.
C33_AddedClipIsFirst ==
    [][\A inp \in PinInputs :
         ( /\ add_clip(inp[1], inp[2])
           /\ \A r \in PinnedRows : r.hash # compute_hash(inp[2]) )
           => \A f \in get_history' : f[1] = ret'[1]
      ]_vars


\* C34: whenever the store is dirty then, no further notification arriving
\* (the UI thread makes a bounded number of calls), the timer firing and the
\* write succeeding, the dirty flag is cleared at some later moment and a
\* snapshot of the full dataset is the newest file of the backup directory.
C34_EventualBackup ==
    /\ need_backup ~> ~need_backup
    /\ need_backup ~> (files # {} /\ Newest.data = clips)


\* two calls were made, the second after the first backup had read the
\* rows; the timer has fired again since, the full dataset is the newest
\* snapshot and the flag is cleared
C34_Witness ==
    /\ ~need_backup
    /\ calls = 2
    /\ Cardinality(files) = 2
    /\ Newest.data = clips
    /\ clips # {}
    /\ bk_pc["timer"] = "idle"


\* the document has its clips: a clips list, or a history list and a pinned
\* list
HasPayload(data) ==
    \/ "clips" \in DOMAIN data
    \/ "history" \in DOMAIN data /\ "pinned" \in DOMAIN data

\* C35: a document that has no checksum field, or that has neither a clips
\* list nor both a history and a pinned list, is rejected by validation:
\* neither validator accepts it, so recovery imports nothing from it.
C35_UnverifiableRejected ==
    ( /\ vres.of.kind = "json"
      /\ \/ "checksum" \notin DOMAIN vres.of.value
         \/ ~HasPayload(vres.of.value) )
      => ~vres.v1.ok /\ ~vres.v2.ok


\* C36: the dirty flag is never cleared for a call the snapshot just written
\* does not hold.  A call that commits between a backup's get_all_clips()
\* and its clear_backup_flag() leaves need_backup true when the backup has
\* ended: whenever need_backup is false and no backup is running, the
\* newest snapshot is of the rows the store holds.
C36_CleanMeansSaved ==
    ( /\ ~need_backup
      /\ \A th \in Threads : bk_pc[th] = "idle" )
      => IF files = {} THEN calls = 0 ELSE Newest.data = clips


\* C37: at most one execution of the backup callback is under way at any
\* moment: force_now() does not run the callback while an execution the
\* timer started is going on, so no two executions have the same temp file
\* open for writing.
C37_OneBackupAtATime ==
    /\ Cardinality({th \in Threads : bk_pc[th] # "idle"}) <= 1
    /\ \A th \in Threads : \A o \in Threads \ {th} :
         ~( /\ wr[th].pc = "write"
            /\ wr[o].pc = "write"
            /\ wr[th].fd = wr[o].fd )


\* what get_pinned can return of these rows: the pinned rows by
\* pin_order DESC, each as its content, tag and group
PinnedView(rows) ==
    LET P == {r \in rows : r.is_pinned} IN
    {[i \in 1..Cardinality(P) |->
        <<s[i].content, s[i].tag, s[i].group_name>>] :
       s \in {t \in [1..Cardinality(P) -> P] :
                \A i, j \in 1..Cardinality(P) :
                   i < j => /\ t[i] # t[j]
                            /\ t[i].pin_order >= t[j].pin_order}}

\* the clips list of the backup that recovery imported
RecoveredFrom ==
    (CHOOSE f \in bdir.backups : f.name = rstat.path).content.value.clips

\* C38 (as claimed): when a snapshot that create_backup wrote of a store's
\* rows was recovered into the empty store, the store holds the same
\* contents, each pinned or unpinned as it was, and get_pinned returns the
\* pinned clips in the order, and with the tag and group, that the store
\* backed up returned them in.
C38_RoundTripKeepsPinned ==
    ( /\ rstat.pc = "backup"
      /\ RecoveredFrom \in get_all_clips(Range(RecoveredFrom)) )
      => /\ {<<r.content, r.is_pinned>> : r \in clips}
              = {<<r.content, r.is_pinned>> : r \in Range(RecoveredFrom)}
         /\ PinnedView(clips) = PinnedView(Range(RecoveredFrom))


\* C39 (as claimed): in every reachable state every unpinned clip has
\* pin_order 0, whatever calls of add_clip, unpin_clip and move_clip
\* (also with is_pinned true for an unpinned clip) were made.
C39_UnpinnedHaveRankZero ==
    \A r \in HistoryRows : r.pin_order = 0


\* C40 (as claimed): add_clip of a content that a pinned clip holds returns
\* that clip's id with is_new = false, leaves the clip pinned with its
\* pin_order, tag and group, and leaves the number of history clips and
\* what get_pinned returns as they were.
C40_PinnedResubmitFrame ==
    [][\A inp \in AddInputs :
         ( /\ add_clip(inp[1], inp[2])
           /\ \E r \in PinnedRows : r.content = inp[2] )
           => /\ \E p \in PinnedRows :
                   /\ p.content = inp[2]
                   /\ ret' = <<p.id, 0>>
                   /\ \E q \in PinnedRows' :
                        /\ q.id = p.id
                        /\ q.pin_order = p.pin_order
                        /\ q.tag = p.tag
                        /\ q.group_name = p.group_name
              /\ Cardinality(HistoryRows') = Cardinality(HistoryRows)
              /\ get_pinned' = get_pinned]_vars

====
